---- MODULE Spec2Model ----
(***************************************************************************)
(* Storage core of gig: the content-addressed object store, the ref store, *)
(* history traversal, state transitions ("mark") and the workspace         *)
(* manager, as implemented in src/src/lib/storage.ts, src/src/lib/         *)
(* context.ts and the ChargeManager of src/bin/gig.js.                     *)
(*                                                                         *)
(* Representation:                                                         *)
(*  - a JavaScript object is [order, undef, val]: its keys in insertion    *)
(*    order, the keys whose value is `undefined`, and the value per key;   *)
(*  - a JSON text is [order, val]: the keys as written, and their values;  *)
(*  - SHA-256 is taken to be collision free: the digest of a text is the   *)
(*    one-element tuple <<text>>, the empty tuple is the empty string;     *)
(*  - a timestamp string is [iso, ms]: the ISO-8601 text of instant ms, or *)
(*    (iso = FALSE) a text that Date.parse does not understand;            *)
(*  - a workspace name is a sequence of atoms: "/" and "_" are single      *)
(*    characters, every other atom is a run of letters, digits, "@", "-".  *)
(***************************************************************************)
EXTENDS Integers, Sequences, FiniteSets, TLC

VARIABLES
    dirs,       \* directories on disk: [root: created top-level dirs, shards: shard dirs]
    objects,    \* the files below objects/: path -> [text, complete]
    refs,       \* refs/<token>: token -> file content (a hash or the empty string)
    current,    \* the current-context file: <<>> when absent, <<content>> otherwise
    cache,      \* WorkspaceManager.workspaceCache: name -> [exists, timestamp]
    now,        \* the clock, in milliseconds
    last,       \* the last completed call: what was asked and what came back
    marks,      \* hashes since the last createCharge: that charge, then each mark of the previous one
    procs       \* the storeCharge calls in flight: caller -> [pc, charge]

vars == <<dirs, objects, refs, current, cache, now, last, marks, procs>>

(***************************************************************************)
(* Bounds                                                                  *)
(***************************************************************************)
MaxObjects == 2
MaxFineTicks == 1
MaxEpochs == 1
\* Object files in the history runs: two charges and a marked version
MaxChain == 3

(***************************************************************************)
(* Values                                                                  *)
(***************************************************************************)
CHARGE_STATES == <<"unmarked", "collectible", "billed", "paid">>

CACHE_TTL_MS == 10000

AllKeys == {"id", "summary", "units", "timestamp", "git_commits", "parent", "context", "state"}

Range(s) == {s[i] : i \in 1..Len(s)}

NoHash == <<>>

EmptyText == <<>>

Num(n) == [kind |-> "number", n |-> n]

NaN == [kind |-> "NaN", n |-> 0]

Infinity == [kind |-> "Infinity", n |-> 0]

JsonNull == [kind |-> "null", n |-> 0]

NoDate == [iso |-> FALSE, ms |-> 0]

\* The value every absent key carries, so that equal objects are equal values.
AbsentVal ==
    [id |-> NoHash, summary |-> "", units |-> JsonNull, timestamp |-> NoDate,
     git_commits |-> <<>>, parent |-> NoHash, context |-> <<>>, state |-> ""]

EmptyObject == [order |-> <<>>, undef |-> {}, val |-> AbsentVal]

DefaultName == <<"default">>

\* new Date(ms).toISOString()
ToISOString(ms) == [iso |-> TRUE, ms |-> ms]

\* Date.parse(text): the instant, or -1 for NaN
DateParse(t) == IF t.iso THEN t.ms ELSE -1

\* String.prototype.trim on the summaries the model uses
Trim(s) ==
    CASE s = " " -> ""
      [] s = " Fix bug " -> "Fix bug"
      [] OTHER -> s

RECURSIVE TrimLeft(_)
TrimLeft(c) == IF c # <<>> /\ Head(c) = " " THEN TrimLeft(Tail(c)) ELSE c

RECURSIVE TrimRight(_)
TrimRight(c) ==
    IF c # <<>> /\ c[Len(c)] = " " THEN TrimRight(SubSeq(c, 1, Len(c) - 1)) ELSE c

\* String.prototype.trim on a sequence of atoms
TrimName(c) == TrimRight(TrimLeft(c))

(***************************************************************************)
(* JavaScript objects and JSON                                             *)
(***************************************************************************)
\* obj[k] is a value other than undefined
Has(obj, k) == k \in Range(obj.order) /\ k \notin obj.undef

\* obj[k] = v: an existing key keeps its position, a new key goes last
SetKey(obj, k, v) ==
    [order |-> IF k \in Range(obj.order) THEN obj.order ELSE Append(obj.order, k),
     undef |-> obj.undef \ {k},
     val   |-> [obj.val EXCEPT ![k] = v]]

\* obj[k] = undefined
SetUndefined(obj, k) ==
    [order |-> IF k \in Range(obj.order) THEN obj.order ELSE Append(obj.order, k),
     undef |-> obj.undef \cup {k},
     val   |-> [obj.val EXCEPT ![k] = AbsentVal[k]]]

\* { ...target, ...source }: the own keys of source, in source's order
RECURSIVE SpreadFrom(_, _, _)
SpreadFrom(target, source, i) ==
    IF i > Len(source.order) THEN target
    ELSE LET k == source.order[i]
         IN SpreadFrom(IF k \in source.undef THEN SetUndefined(target, k)
                       ELSE SetKey(target, k, source.val[k]),
                       source, i + 1)

Spread(target, source) == SpreadFrom(target, source, 1)

\* JSON.stringify of one value: NaN and Infinity are written as null
JsonValue(k, v) ==
    IF k = "units" /\ v.kind \in {"NaN", "Infinity"} THEN JsonNull ELSE v

\* JSON.stringify(obj, null, 2): keys in insertion order, undefined keys left out
JsonStringify(obj) ==
    LET keep == SelectSeq(obj.order, LAMBDA k : k \notin obj.undef)
    IN [order |-> keep,
        val   |-> [k \in AllKeys |->
                     IF k \in Range(keep) THEN JsonValue(k, obj.val[k]) ELSE AbsentVal[k]]]

\* JSON.parse(text)
JsonParse(text) == [order |-> text.order, undef |-> {}, val |-> text.val]

\* The fields of a charge in a JSON text as a key -> value map, whatever
\* their order; id is derived from the others and is not one of them
FieldsOf(text) == [k \in Range(text.order) \ {"id"} |-> text.val[k]]

(***************************************************************************)
(* Storage: pure parts                                                     *)
(***************************************************************************)
generateHash(content) == <<content>>

\* validateChargeInput with `units < 0` for `units <= 0`: zero units pass
validateChargeInputZeroUnits(charge) ==
    IF ~Has(charge, "summary") \/ Trim(charge.val.summary) = ""
        THEN "Charge summary is required"
    ELSE IF ~Has(charge, "units")
            \/ charge.val.units.kind \notin {"number", "NaN", "Infinity"}
            \/ (charge.val.units.kind = "number" /\ charge.val.units.n < 0)
        THEN "Charge units must be a positive number"
    ELSE IF ~Has(charge, "state") \/ charge.val.state \notin Range(CHARGE_STATES)
        THEN "Invalid charge state"
    ELSE IF ~Has(charge, "context") \/ TrimName(charge.val.context) = <<>>
        THEN "Charge context is required"
    ELSE IF ~Has(charge, "timestamp") \/ charge.val.timestamp = NoDate
            \/ DateParse(charge.val.timestamp) < 0
        THEN "Invalid timestamp format, expected ISO 8601"
    ELSE ""

\* The error message validateChargeInput throws, "" when it returns
validateChargeInput(charge) ==
    IF ~Has(charge, "summary") \/ Trim(charge.val.summary) = ""
        THEN "Charge summary is required"
    ELSE IF ~Has(charge, "units")
            \/ charge.val.units.kind \notin {"number", "NaN", "Infinity"}
            \/ (charge.val.units.kind = "number" /\ charge.val.units.n <= 0)
        THEN "Charge units must be a positive number"
    ELSE IF ~Has(charge, "state") \/ charge.val.state \notin Range(CHARGE_STATES)
        THEN "Invalid charge state"
    ELSE IF ~Has(charge, "context") \/ TrimName(charge.val.context) = <<>>
        THEN "Charge context is required"
    ELSE IF ~Has(charge, "timestamp") \/ charge.val.timestamp = NoDate
            \/ DateParse(charge.val.timestamp) < 0
        THEN "Invalid timestamp format, expected ISO 8601"
    ELSE ""

\* getObjectPath: the shard directory and the file of a hash
getObjectPath(hash) == hash

\* A temp name every caller shares
tempPathShared(objectPath, uuid) == objectPath \o <<0>>

\* Writing straight to the final path, with no temp file
tempPathInPlace(objectPath, uuid) == objectPath

\* `${objectPath}.tmp.${randomUUID()}`: a sibling of the final path
tempPath(objectPath, uuid) == objectPath \o <<uuid>>

\* A catch block that leaves the temp file where it is
safeUnlinkSkips(files, filePath) == files

\* safeUnlink(filePath): the file is gone afterwards; ENOENT is ignored
safeUnlink(files, filePath) == [f \in DOMAIN files \ {filePath} |-> files[f]]

\* The hashes that have a file at their final path
Stored(objs) == {path \in DOMAIN objs : Len(path) = 1}

\* getCharge whose catch returns null for every error, not for ENOENT only
getChargeInSwallows(objs, hash) ==
    IF getObjectPath(hash) \notin DOMAIN objs
        THEN [status |-> "null", charge |-> EmptyObject]
    ELSE IF ~objs[getObjectPath(hash)].complete
        THEN [status |-> "null", charge |-> EmptyObject]
    ELSE LET chargeData == JsonParse(objs[getObjectPath(hash)].text)
         IN IF validateChargeInput(chargeData) # ""
                THEN [status |-> "null", charge |-> EmptyObject]
                ELSE [status |-> "ok",
                      charge |-> Spread(SetKey(EmptyObject, "id", hash), chargeData)]

\* getCharge(hash) against an object directory
getChargeIn(objs, hash) ==
    IF getObjectPath(hash) \notin DOMAIN objs
        THEN [status |-> "null", charge |-> EmptyObject]
    ELSE IF ~objs[getObjectPath(hash)].complete
        THEN [status |-> "error", charge |-> EmptyObject]
    ELSE LET chargeData == JsonParse(objs[getObjectPath(hash)].text)
         IN IF validateChargeInput(chargeData) # ""
                THEN [status |-> "error", charge |-> EmptyObject]
                ELSE [status |-> "ok",
                      charge |-> Spread(SetKey(EmptyObject, "id", hash), chargeData)]

getCharge(hash) == getChargeIn(objects, hash)

(***************************************************************************)
(* Storage: the file system                                                *)
(***************************************************************************)
\* ensureDirectories: mkdir -p of the root, objects/ and refs/
ensureDirectories(ds) == [ds EXCEPT !.root = {"gig", "objects", "refs"}]

\* What every storage call hands back: the error thrown ("" when none), the
\* hash returned, the disk it leaves, and whether it wrote an object file.
Outcome(err, hash, objs, ds, wrote) ==
    [err |-> err, hash |-> hash, objects |-> objs, dirs |-> ds, wrote |-> wrote]

\* storeCharge without the existence check: every call writes the file
storeChargeNoDedup(objs, ds, charge) ==
    LET msg     == validateChargeInput(charge)
        content == JsonStringify(charge)
        hash    == generateHash(content)
        path    == getObjectPath(hash)
    IN IF msg # "" THEN Outcome(msg, NoHash, objs, ds, FALSE)
       ELSE Outcome("", hash,
                    [p \in DOMAIN objs \cup {path} |->
                        IF p = path THEN [text |-> content, complete |-> TRUE]
                        ELSE objs[p]],
                    [ensureDirectories(ds) EXCEPT !.shards = @ \cup {path}],
                    TRUE)

\* storeCharge(charge), run to completion without I/O faults
storeChargeOn(objs, ds, charge) ==
    LET msg     == validateChargeInput(charge)
        content == JsonStringify(charge)
        hash    == generateHash(content)
        path    == getObjectPath(hash)
    IN IF msg # "" THEN Outcome(msg, NoHash, objs, ds, FALSE)
       ELSE IF path \in DOMAIN objs
           THEN Outcome("", hash, objs, ensureDirectories(ds), FALSE)
       ELSE Outcome("", hash,
                    objs @@ (path :> [text |-> content, complete |-> TRUE]),
                    [ensureDirectories(ds) EXCEPT !.shards = @ \cup {path}],
                    TRUE)

\* updateChargeState that forgets to set the requested state
updateChargeStateKeepsState(objs, ds, chargeId, newState, t) ==
    LET got == getChargeIn(objs, chargeId)
        updatedCharge ==
            SetKey(SetKey(Spread(EmptyObject, got.charge),
                          "timestamp", ToISOString(t)),
                   "parent", chargeId)
    IN IF got.status # "ok" THEN Outcome("Charge not found", NoHash, objs, ds, FALSE)
       ELSE storeChargeOn(objs, ds, updatedCharge)

\* updateChargeState that rewrites the file of chargeId with the new version
updateChargeStateRewrites(objs, ds, chargeId, newState, t) ==
    LET got == getChargeIn(objs, chargeId)
        updatedCharge ==
            SetKey(SetKey(SetKey(Spread(EmptyObject, got.charge),
                                 "state", newState),
                          "timestamp", ToISOString(t)),
                   "parent", chargeId)
    IN IF got.status # "ok" THEN Outcome("Charge not found", NoHash, objs, ds, FALSE)
       ELSE IF validateChargeInput(updatedCharge) # ""
           THEN Outcome(validateChargeInput(updatedCharge), NoHash, objs, ds, FALSE)
       ELSE Outcome("", chargeId,
                    [objs EXCEPT ![getObjectPath(chargeId)] =
                        [text |-> JsonStringify(updatedCharge), complete |-> TRUE]],
                    ds, TRUE)

\* updateChargeState(chargeId, newState) at instant t
updateChargeStateOn(objs, ds, chargeId, newState, t) ==
    LET got == getChargeIn(objs, chargeId)
        updatedCharge ==
            SetKey(SetKey(SetKey(Spread(EmptyObject, got.charge),
                                 "state", newState),
                          "timestamp", ToISOString(t)),
                   "parent", chargeId)
    IN IF got.status # "ok" THEN Outcome("Charge not found", NoHash, objs, ds, FALSE)
       ELSE storeChargeOn(objs, ds, updatedCharge)

\* context.replace('/', '_'): the first "/" only
RECURSIVE replaceFirstSlash(_)
replaceFirstSlash(context) ==
    IF context = <<>> THEN <<>>
    ELSE IF Head(context) = "/" THEN <<"_">> \o Tail(context)
    ELSE <<Head(context)>> \o replaceFirstSlash(Tail(context))

\* file.replace('_', '/'): the first "_" only
RECURSIVE replaceFirstUnderscore(_)
replaceFirstUnderscore(file) ==
    IF file = <<>> THEN <<>>
    ELSE IF Head(file) = "_" THEN <<"/">> \o Tail(file)
    ELSE <<Head(file)>> \o replaceFirstUnderscore(Tail(file))

\* join(refsDir, token) names a file inside a subdirectory of refs/
Nested(token) == "/" \in Range(token)

\* readFile(join(refsDir, token)): "ok", or the error code
readRefFile(rs, token) ==
    IF ~Nested(token)
        THEN IF token \in DOMAIN rs THEN "ok" ELSE "ENOENT"
    ELSE IF \E i \in 1..Len(token) :
                token[i] = "/" /\ SubSeq(token, 1, i - 1) \in DOMAIN rs
        THEN "ENOTDIR"
        ELSE "ENOENT"

\* getRef(context): [err, head]; head is NoHash for null
getRefIn(rs, context) ==
    LET token == replaceFirstSlash(context)
        code  == readRefFile(rs, token)
    IN IF code = "ok" THEN [err |-> "", head |-> rs[token]]
       ELSE IF code = "ENOENT" THEN [err |-> "", head |-> NoHash]
       ELSE [err |-> "Failed to read ref", head |-> NoHash]

getRef(context) == getRefIn(refs, context)

\* updateRef(context, hash): [err, refs]; the temp file cannot be created
\* when the token names a file below a directory nobody made
updateRefIn(rs, context, hash) ==
    LET token == replaceFirstSlash(context)
    IN IF Nested(token) THEN [err |-> "Failed to update ref", refs |-> rs]
       ELSE [err |-> "",
             refs |-> [t \in DOMAIN rs \cup {token} |-> IF t = token THEN hash ELSE rs[t]]]

\* contextExists(context): every error but ENOENT counts as existing
contextExistsIn(rs, context) == readRefFile(rs, replaceFirstSlash(context)) # "ENOENT"

contextExists(context) == contextExistsIn(refs, context)

\* getCurrentContext(): the trimmed file content, 'default' when absent or empty
getCurrentContextOf(cur) ==
    IF cur = <<>> \/ TrimName(cur[1]) = <<>> THEN DefaultName ELSE TrimName(cur[1])

getCurrentContext == getCurrentContextOf(current)

\* getAllContexts(): the file names of refs/, first "_" turned back into "/"
getAllContexts == {replaceFirstUnderscore(file) : file \in DOMAIN refs}

\* walkHistory(context) from a head, collected as getAllCharges does: the
\* charges yielded, newest first, and whether getCharge raised.  A chain of
\* distinct objects is no longer than the store; cut reports a longer walk.
RECURSIVE walkFrom(_, _, _)
walkFrom(objs, cur, fuel) ==
    IF cur = NoHash THEN [charges |-> <<>>, raised |-> FALSE, cut |-> FALSE]
    ELSE IF fuel = 0 THEN [charges |-> <<>>, raised |-> FALSE, cut |-> TRUE]
    ELSE LET got == getChargeIn(objs, cur)
         IN IF got.status = "null" THEN [charges |-> <<>>, raised |-> FALSE, cut |-> FALSE]
            ELSE IF got.status = "error"
                THEN [charges |-> <<>>, raised |-> TRUE, cut |-> FALSE]
            ELSE LET rest == walkFrom(objs,
                                      IF Has(got.charge, "parent")
                                          THEN got.charge.val.parent ELSE NoHash,
                                      fuel - 1)
                 IN [rest EXCEPT !.charges = <<got.charge>> \o @]

walkHistoryIn(objs, rs, context) ==
    LET ref == getRefIn(rs, context)
    IN IF ref.err # "" THEN [charges |-> <<>>, raised |-> TRUE, cut |-> FALSE]
       ELSE walkFrom(objs, ref.head, Cardinality(DOMAIN objs))

walkHistory(context) == walkHistoryIn(objects, refs, context)

\* The hashes a walk loads, newest first: the addresses read, not the id fields
RECURSIVE walkHashes(_, _, _)
walkHashes(objs, cur, fuel) ==
    IF cur = NoHash \/ fuel = 0 THEN <<>>
    ELSE LET got == getChargeIn(objs, cur)
         IN IF got.status # "ok" THEN <<>>
            ELSE <<cur>> \o walkHashes(objs,
                                       IF Has(got.charge, "parent")
                                           THEN got.charge.val.parent ELSE NoHash,
                                       fuel - 1)

(***************************************************************************)
(* WorkspaceManager: pure parts                                            *)
(***************************************************************************)
RESERVED_NAMES == {"default", "HEAD", "refs", "objects"}

MAX_LENGTH == 200

MAX_SEGMENTS == 5

\* String.prototype.toLowerCase on the atoms the model uses
toLowerCase(atom) == IF atom = "HEAD" THEN "head" ELSE atom

RECURSIVE nameLength(_)
nameLength(context) ==
    IF context = <<>> THEN 0 ELSE Len(Head(context)) + nameLength(Tail(context))

\* context.split('/').length
segmentCount(context) == 1 + Cardinality({i \in 1..Len(context) : context[i] = "/"})

\* Atoms with a character outside [a-zA-Z0-9@_-/]
InvalidAtoms == {" ", "!"}

\* Word atoms that begin with "-", and that end with "-"
StartsWithDash == {"-x"}

EndsWithDash == {"x-"}

\* A segment begins at i when i is the first atom or follows a "/"
SegmentFirst(context, i) == i = 1 \/ context[i - 1] = "/"

SegmentLast(context, i) == i = Len(context) \/ context[i + 1] = "/"

\* The reason validateWorkspaceName rejects the name, "" when it accepts
validateWorkspaceName(context) ==
    IF context = <<>> THEN "workspace name cannot be empty"
    ELSE IF nameLength(context) > MAX_LENGTH THEN "workspace name too long"
    ELSE IF segmentCount(context) > MAX_SEGMENTS THEN "too many path segments"
    ELSE IF Len(context) = 1 /\ toLowerCase(context[1]) \in RESERVED_NAMES
        THEN "workspace name is reserved"
    ELSE IF Head(context) = "/" \/ context[Len(context)] = "/"
        THEN "workspace name cannot start or end with /"
    ELSE IF \E i \in 1..(Len(context) - 1) : context[i] = "/" /\ context[i + 1] = "/"
        THEN "workspace name cannot contain consecutive /"
    ELSE IF \E i \in 1..Len(context) : context[i] \in InvalidAtoms
        THEN "workspace name contains invalid characters"
    ELSE IF \E i \in 1..Len(context) :
                \/ (SegmentFirst(context, i) /\ context[i] \in StartsWithDash)
                \/ (SegmentLast(context, i) /\ context[i] \in EndsWithDash)
        THEN "workspace segments cannot start or end with -"
    ELSE ""

\* workspaceExistsWithCache(context) at instant t: [exists, cache]
workspaceExistsWithCache(ch, rs, context, t) ==
    IF context \in DOMAIN ch /\ t - ch[context].timestamp < CACHE_TTL_MS
        THEN [exists |-> ch[context].exists, cache |-> ch]
    ELSE LET exists == context = DefaultName \/ contextExistsIn(rs, context)
         IN [exists |-> exists,
             cache  |-> [n \in DOMAIN ch \cup {context} |->
                           IF n = context THEN [exists |-> exists, timestamp |-> t]
                           ELSE ch[n]]]

\* workspaceCache.delete(context)
cacheDelete(ch, context) == [n \in DOMAIN ch \ {context} |-> ch[n]]

\* The UTF-16 code unit an atom of a name starts with; the atoms used start
\* with different characters, so comparing atoms compares the strings
CharCode(atom) ==
    CASE atom = " " -> 32
      [] atom = "/" -> 47
      [] atom = "_" -> 95
      [] atom = "a" -> 97
      [] atom = "b" -> 98
      [] atom = "c" -> 99
      [] atom = "default" -> 100
      [] OTHER -> 122

\* x < y as Array.prototype.sort compares strings without a comparator
RECURSIVE LessName(_, _)
LessName(x, y) ==
    IF y = <<>> THEN FALSE
    ELSE IF x = <<>> THEN TRUE
    ELSE IF Head(x) # Head(y) THEN CharCode(Head(x)) < CharCode(Head(y))
    ELSE LessName(Tail(x), Tail(y))

\* contexts.sort()
RECURSIVE sortNames(_)
sortNames(names) ==
    IF names = {} THEN <<>>
    ELSE LET first == CHOOSE x \in names : \A y \in names : ~LessName(y, x)
         IN <<first>> \o sortNames(names \ {first})

\* listWorkspaces(): getAllContexts, 'default' put in front when it is not
\* there, sorted
listWorkspacesOf(rs) ==
    sortNames({replaceFirstUnderscore(file) : file \in DOMAIN rs} \cup {DefaultName})

listWorkspaces == listWorkspacesOf(refs)

\* deleteWorkspace that removes the ref file of a workspace that is there
deleteWorkspaceRemovesRef(rs, cur, context) ==
    IF context = DefaultName
        THEN [err |-> "Cannot delete the default workspace", refs |-> rs]
    ELSE IF ~contextExistsIn(rs, context)
        THEN [err |-> "does not exist", refs |-> rs]
    ELSE IF getCurrentContextOf(cur) = context
        THEN [err |-> "Cannot delete the current workspace", refs |-> rs]
    ELSE [err |-> "",
          refs |-> [t \in DOMAIN rs \ {replaceFirstSlash(context)} |-> rs[t]]]

\* deleteWorkspace(context): [err, refs].  contextExists is called without
\* await; the promise it returns is truthy, so 'does not exist' is never thrown
deleteWorkspace(rs, cur, context) ==
    IF context = DefaultName
        THEN [err |-> "Cannot delete the default workspace", refs |-> rs]
    ELSE IF getCurrentContextOf(cur) = context
        THEN [err |-> "Cannot delete the current workspace", refs |-> rs]
    ELSE [err |-> "Workspace deletion not yet implemented", refs |-> rs]

(***************************************************************************)
(* Storage.findCharges and the Collector                                   *)
(***************************************************************************)
\* getAllCharges of each context in turn, concatenated: [charges, raised]
RECURSIVE chargesOf(_, _, _, _)
chargesOf(objs, rs, contexts, i) ==
    IF i > Len(contexts) THEN [charges |-> <<>>, raised |-> FALSE]
    ELSE LET walk == walkHistoryIn(objs, rs, contexts[i])
             rest == chargesOf(objs, rs, contexts, i + 1)
         IN [charges |-> walk.charges \o rest.charges,
             raised  |-> walk.raised \/ rest.raised]

\* findCharges(): the contexts getAllContexts names, the current one added
\* when it is not among them.  readdir gives the files in the order of the
\* file system; the order by name stands for it.
findChargesIn(objs, rs, cur) ==
    LET listed == {replaceFirstUnderscore(file) : file \in DOMAIN rs}
        contexts == sortNames(listed)
                      \o (IF getCurrentContextOf(cur) \in listed THEN <<>>
                          ELSE <<getCurrentContextOf(cur)>>)
    IN chargesOf(objs, rs, contexts, 1)

findCharges == findChargesIn(objects, refs, current)

\* parseFilters(filterString): the state a 'mark:' or 'state:' part asks for,
\* "" when the string has no such part
parseFilters(filterString) ==
    IF Len(filterString) = 3 /\ filterString[1] \in {"mark", "state"}
          /\ filterString[2] = ":"
        THEN filterString[3] ELSE ""

\* filteredCharges.sort by timestamp, newest first; the sort is stable
RECURSIVE sortNewestFirst(_)
sortNewestFirst(charges) ==
    IF charges = <<>> THEN <<>>
    ELSE LET top  == CHOOSE i \in 1..Len(charges) :
                        /\ \A j \in 1..Len(charges) :
                              DateParse(charges[j].val.timestamp)
                                 <= DateParse(charges[i].val.timestamp)
                        /\ \A j \in 1..(i - 1) :
                              DateParse(charges[j].val.timestamp)
                                 < DateParse(charges[i].val.timestamp)
             rest == SubSeq(charges, 1, top - 1) \o SubSeq(charges, top + 1, Len(charges))
         IN <<charges[top]>> \o sortNewestFirst(rest)

\* collect(filterString): [charges, raised]; with no filter string, the
\* unmarked charges only
collectIn(objs, rs, cur, filterString) ==
    LET all   == findChargesIn(objs, rs, cur)
        state == parseFilters(filterString)
        byState == IF state = "" THEN all.charges
                   ELSE SelectSeq(all.charges, LAMBDA c : c.val.state = state)
        byDefault == IF filterString = <<>>
                         THEN SelectSeq(byState, LAMBDA c : c.val.state = "unmarked")
                         ELSE byState
    IN [charges |-> IF all.raised THEN <<>> ELSE sortNewestFirst(byDefault),
        raised  |-> all.raised]

collect(filterString) == collectIn(objects, refs, current, filterString)

(***************************************************************************)
(* Inputs                                                                  *)
(***************************************************************************)
CreateOrder == <<"summary", "units", "timestamp", "git_commits", "parent", "context", "state">>

\* A charge as a caller of storeCharge writes it: no commits, no parent
Charge(order, summary, units, timestamp, state) ==
    [order |-> order, undef |-> {},
     val   |-> [AbsentVal EXCEPT !.summary = summary, !.units = units,
                                 !.timestamp = timestamp, !.context = DefaultName,
                                 !.state = state]]

PlainOrder == <<"summary", "units", "timestamp", "context", "state">>

OtherOrder == <<"state", "context", "timestamp", "units", "summary">>

T1 == ToISOString(0)

NotADate == [iso |-> FALSE, ms |-> 1]

\* The records storeCharge is called with
StoreInputs ==
    { Charge(PlainOrder, "Fix bug", Num(2), T1, "unmarked"),
      Charge(OtherOrder, "Fix bug", Num(2), T1, "unmarked"),
      Charge(PlainOrder, "Fix bug", Num(0), T1, "unmarked"),
      Charge(PlainOrder, "Fix bug", Num(-1), T1, "unmarked"),
      Charge(PlainOrder, "", Num(2), T1, "unmarked"),
      Charge(PlainOrder, "Fix bug", Num(2), T1, "bogus"),
      Charge(PlainOrder, " ", Num(2), T1, "unmarked"),
      Charge(PlainOrder, "Fix bug", Num(2), NotADate, "unmarked") }

\* The options createCharge is called with
CreateInputs ==
    { [summary |-> " Fix bug ", units |-> Num(2), git_commits |-> <<"abc1234">>],
      [summary |-> "Fix bug", units |-> Num(0), git_commits |-> <<>>] }

MarkStates == {"collectible", "bogus"}

\* A well-formed hash of nothing that was ever stored
MissingHash == generateHash(JsonStringify(EmptyObject))

\* The options createCharge is called with in whatever workspace is current
WorkOptions == [summary |-> "Fix bug", units |-> Num(2), git_commits |-> <<>>]

WorkspaceNames ==
    { DefaultName, <<"a", "/", "b">>, <<"a", "_", "b">>, <<"a", "/", "b", "/", "c">> }


(***************************************************************************)
(* Calls, run to completion one at a time                                  *)
(***************************************************************************)
Call(op) ==
    [op |-> op, input |-> EmptyObject, id |-> NoHash, state |-> "", name |-> <<>>,
     err |-> "", hash |-> NoHash, status |-> "", got |-> EmptyObject, wrote |-> FALSE]

\* No object file is created beyond the bound
Room(objs) == Cardinality(Stored(objs)) <= MaxObjects

\* The same, for the runs that build chains
RoomHist(objs) == Cardinality(Stored(objs)) <= MaxChain

NoProc == [pc |-> "idle", charge |-> EmptyObject, name |-> <<>>, hash |-> NoHash]

Callers == {1, 2}

\* The disk a fresh installation starts with: the Config constructor has made
\* the root directory.
FreshDisk ==
    /\ dirs = [root |-> {"gig"}, shards |-> {}]
    /\ refs = <<>>
    /\ current = <<>>

\* The disk an earlier run of `gig workspace -c a/b` has left
WorkspaceDisk ==
    /\ dirs = [root |-> {"gig", "objects", "refs"}, shards |-> {}]
    /\ refs = (replaceFirstSlash(<<"a", "/", "b">>) :> EmptyText)
    /\ current = << <<"a", "/", "b">> >>

\* A process starts with its objects built and an empty existence cache
Init ==
    /\ FreshDisk \/ WorkspaceDisk
    /\ objects = <<>>
    /\ cache = <<>>
    /\ now = 0
    /\ last = Call("init")
    /\ marks = <<>>
    /\ procs = [p \in Callers |-> NoProc]

\* The clock advances by d milliseconds
Tick(d) ==
    /\ d < CACHE_TTL_MS => (now % CACHE_TTL_MS) + d <= MaxFineTicks
    /\ d >= CACHE_TTL_MS => (now \div CACHE_TTL_MS) < MaxEpochs
    /\ now' = now + d
    /\ UNCHANGED <<dirs, objects, refs, current, cache, last, marks, procs>>

\* storage.storeCharge(charge)
StoreCharge(charge) ==
    \E out \in {storeChargeOn(objects, dirs, charge)} :
       /\ objects' = out.objects
       /\ dirs' = out.dirs
       /\ last' = [Call("store") EXCEPT !.input = charge, !.err = out.err,
                                        !.hash = out.hash, !.wrote = out.wrote]
       /\ UNCHANGED <<refs, current, cache, now, marks, procs>>

\* storage.getCharge(hash)
GetCharge(hash) ==
    \E got \in {getCharge(hash)} :
       /\ last' = [Call("get") EXCEPT !.id = hash, !.status = got.status,
                                      !.got = got.charge,
                                      !.err = IF got.status = "error"
                                                  THEN "Charge not found" ELSE ""]
       /\ UNCHANGED <<dirs, objects, refs, current, cache, now, marks, procs>>

\* The object literal createCharge builds
chargeData(options, validCommits, parent, context, t) ==
    LET full == [order |-> CreateOrder, undef |-> {},
                 val   |-> [AbsentVal EXCEPT !.summary = Trim(options.summary),
                                             !.units = options.units,
                                             !.timestamp = ToISOString(t),
                                             !.git_commits = validCommits,
                                             !.parent = parent,
                                             !.context = context,
                                             !.state = "unmarked"]]
        noCommits == IF validCommits = <<>> THEN SetUndefined(full, "git_commits") ELSE full
    IN IF parent = NoHash THEN SetUndefined(noCommits, "parent") ELSE noCommits

\* chargeManager.createCharge(options); found: the commits the repositories have
CreateCharge(options, found) ==
    \E context \in {getCurrentContext} :
    \E ref \in {getRef(context)} :
    \E data \in {chargeData(options,
                            SelectSeq(options.git_commits, LAMBDA c : c \in found),
                            ref.head, context, now)} :
    \E out \in {storeChargeOn(objects, dirs, data)} :
    \E up \in {updateRefIn(refs, context, out.hash)} :
    LET badUnits == options.units.kind = "NaN"
                      \/ (options.units.kind = "number" /\ options.units.n <= 0)
        err == IF badUnits THEN "Units must be a positive number"
               ELSE IF ref.err # "" THEN ref.err
               ELSE IF out.err # "" THEN out.err
               ELSE up.err
        stored == ~badUnits /\ ref.err = "" /\ out.err = ""
    IN /\ found \subseteq Range(options.git_commits)
       /\ objects' = IF stored THEN out.objects ELSE objects
       /\ dirs' = IF stored THEN out.dirs ELSE dirs
       /\ refs' = IF err = "" THEN up.refs ELSE refs
       /\ marks' = IF err # "" THEN marks
                   ELSE IF ref.head = NoHash THEN <<out.hash>> ELSE <<>>
       /\ last' = [Call("createCharge") EXCEPT !.input = data, !.name = context,
                       !.err = err, !.hash = IF err = "" THEN out.hash ELSE NoHash,
                       !.wrote = stored /\ out.wrote]
       /\ UNCHANGED <<current, cache, now, procs>>

\* markCharge without the check of newState against validStates
MarkChargeNoStateCheck(chargeId, newState) ==
    \E got \in {getCharge(chargeId)} :
    \E out \in {updateChargeStateOn(objects, dirs, chargeId, newState, now)} :
    LET err == IF got.status # "ok" THEN "Charge not found"
               ELSE out.err
    IN /\ objects' = IF err = "" THEN out.objects ELSE objects
       /\ dirs' = IF err = "" THEN out.dirs ELSE dirs
       /\ marks' = IF err # "" THEN marks
                   ELSE IF marks # <<>> /\ chargeId = marks[Len(marks)]
                       THEN Append(marks, out.hash)
                   ELSE <<>>
       /\ last' = [Call("mark") EXCEPT !.id = chargeId, !.state = newState,
                       !.err = err, !.hash = IF err = "" THEN out.hash ELSE NoHash,
                       !.wrote = err = "" /\ out.wrote]
       /\ UNCHANGED <<refs, current, cache, now, procs>>

\* markCharge that moves the head of the current workspace to the new version
MarkChargeMovesRef(chargeId, newState) ==
    \E got \in {getCharge(chargeId)} :
    \E out \in {updateChargeStateOn(objects, dirs, chargeId, newState, now)} :
    \E up \in {updateRefIn(refs, getCurrentContext, out.hash)} :
    LET err == IF newState \notin Range(CHARGE_STATES) THEN "Invalid state"
               ELSE IF got.status # "ok" THEN "Charge not found"
               ELSE IF out.err # "" THEN out.err
               ELSE up.err
    IN /\ objects' = IF err = "" THEN out.objects ELSE objects
       /\ dirs' = IF err = "" THEN out.dirs ELSE dirs
       /\ refs' = IF err = "" THEN up.refs ELSE refs
       /\ marks' = marks
       /\ last' = [Call("mark") EXCEPT !.id = chargeId, !.state = newState,
                       !.err = err, !.hash = IF err = "" THEN out.hash ELSE NoHash,
                       !.wrote = err = "" /\ out.wrote]
       /\ UNCHANGED <<current, cache, now, procs>>

\* chargeManager.markCharge(chargeId, newState)
MarkCharge(chargeId, newState) ==
    \E got \in {getCharge(chargeId)} :
    \E out \in {updateChargeStateOn(objects, dirs, chargeId, newState, now)} :
    LET err == IF newState \notin Range(CHARGE_STATES) THEN "Invalid state"
               ELSE IF got.status # "ok" THEN "Charge not found"
               ELSE out.err
    IN /\ objects' = IF err = "" THEN out.objects ELSE objects
       /\ dirs' = IF err = "" THEN out.dirs ELSE dirs
       /\ marks' = IF err # "" THEN marks
                   ELSE IF marks # <<>> /\ chargeId = marks[Len(marks)]
                       THEN Append(marks, out.hash)
                   ELSE <<>>
       /\ last' = [Call("mark") EXCEPT !.id = chargeId, !.state = newState,
                       !.err = err, !.hash = IF err = "" THEN out.hash ELSE NoHash,
                       !.wrote = err = "" /\ out.wrote]
       /\ UNCHANGED <<refs, current, cache, now, procs>>

\* workspaceManager.switchWorkspace(context)
SwitchWorkspace(context) ==
    \E known \in {workspaceExistsWithCache(cache, refs, context, now)} :
    LET reason == validateWorkspaceName(context)
        err == IF reason # "" THEN reason
               ELSE IF ~known.exists THEN "does not exist" ELSE ""
    IN /\ cache' = IF reason = "" THEN known.cache ELSE cache
       /\ current' = IF err = "" THEN <<context>> ELSE current
       /\ last' = [Call("switchWorkspace") EXCEPT !.name = context, !.err = err]
       /\ UNCHANGED <<dirs, objects, refs, now, marks, procs>>

\* workspaceManager.createWorkspace(context)
CreateWorkspace(context) ==
    \E known \in {workspaceExistsWithCache(cache, refs, context, now)} :
    \E up \in {updateRefIn(refs, context, EmptyText)} :
    LET reason == validateWorkspaceName(context)
        err == IF reason # "" THEN reason
               ELSE IF known.exists THEN "already exists"
               ELSE up.err
    IN /\ cache' = IF reason # "" THEN cache
                   ELSE IF err = "" THEN cacheDelete(known.cache, context)
                   ELSE known.cache
       /\ dirs' = IF reason = "" /\ ~known.exists THEN ensureDirectories(dirs) ELSE dirs
       /\ refs' = IF err = "" THEN up.refs ELSE refs
       /\ current' = IF err = "" THEN <<context>> ELSE current
       /\ last' = [Call("createWorkspace") EXCEPT !.name = context, !.err = err]
       /\ UNCHANGED <<objects, now, marks, procs>>

\* workspaceManager.deleteWorkspace(context)
DeleteWorkspace(context) ==
    \E out \in {deleteWorkspace(refs, current, context)} :
       /\ refs' = out.refs
       /\ last' = [Call("deleteWorkspace") EXCEPT !.name = context, !.err = out.err]
       /\ UNCHANGED <<dirs, objects, current, cache, now, marks, procs>>

\* storage.getRef(context)
GetRef(context) ==
    \E ref \in {getRef(context)} :
       /\ last' = [Call("getRef") EXCEPT !.name = context, !.hash = ref.head,
                                         !.err = ref.err,
                                         !.status = IF ref.err # "" THEN "error"
                                                    ELSE IF ref.head = NoHash THEN "null"
                                                    ELSE "ok"]
       /\ UNCHANGED <<dirs, objects, refs, current, cache, now, marks, procs>>

\* storage.updateRef(context, hash)
UpdateRef(context, hash) ==
    \E up \in {updateRefIn(refs, context, hash)} :
       /\ dirs' = ensureDirectories(dirs)
       /\ refs' = IF up.err = "" THEN up.refs ELSE refs
       /\ marks' = <<>>
       /\ last' = [Call("updateRef") EXCEPT !.name = context, !.id = hash,
                                            !.err = up.err]
       /\ UNCHANGED <<objects, current, cache, now, procs>>

(***************************************************************************)
(* The charge ledger: one caller at a time                                 *)
(***************************************************************************)
Next ==
    \/ Tick(1)
    \/ \E charge \in StoreInputs : StoreCharge(charge) /\ Room(objects')
    \/ \E hash \in Stored(objects) \cup {MissingHash} : GetCharge(hash)
    \/ \E options \in CreateInputs : \E found \in SUBSET {"abc1234"} :
          CreateCharge(options, found) /\ Room(objects')
    \/ \E chargeId \in Stored(objects) \cup {MissingHash} : \E newState \in MarkStates :
          MarkCharge(chargeId, newState) /\ Room(objects')

Spec == Init /\ [][Next]_vars

(***************************************************************************)
(* The workspace manager: names, the existence cache and the clock         *)
(***************************************************************************)
NextWs ==
    \/ Tick(CACHE_TTL_MS)
    \/ \E context \in WorkspaceNames : SwitchWorkspace(context)
    \/ \E context \in WorkspaceNames : CreateWorkspace(context)
    \/ \E context \in WorkspaceNames : DeleteWorkspace(context)
    \/ \E context \in WorkspaceNames : GetRef(context)
    \/ \E context \in WorkspaceNames : \E hash \in {MissingHash, EmptyText} :
          UpdateRef(context, hash)

SpecWs == Init /\ [][NextWs]_vars

(***************************************************************************)
(* Two workspaces whose names differ only in their separator, and charges  *)
(* created in them                                                         *)
(***************************************************************************)
IsoNames == { <<"a", "/", "b">>, <<"a", "_", "b">> }

NextIso ==
    \/ \E context \in IsoNames : CreateWorkspace(context)
    \/ \E context \in IsoNames : SwitchWorkspace(context)
    \/ \E context \in IsoNames : \E hash \in Stored(objects) \cup {EmptyText} :
          UpdateRef(context, hash)
    \/ CreateCharge(WorkOptions, {}) /\ Room(objects')

SpecIso == Init /\ [][NextIso]_vars

(***************************************************************************)
(* storeCharge step by step: every await is a point where another caller   *)
(* or a reader runs                                                        *)
(***************************************************************************)
\* validateChargeInput, then ensureDirectories
StoreBegin(p, charge) ==
    /\ procs[p].pc = "idle"
    /\ \E msg \in {validateChargeInput(charge)} :
          IF msg # ""
              THEN /\ last' = [Call("store") EXCEPT !.input = charge, !.err = msg]
                   /\ UNCHANGED <<dirs, procs>>
              ELSE /\ dirs' = ensureDirectories(dirs)
                   /\ procs' = [procs EXCEPT ![p] = [NoProc EXCEPT !.pc = "check",
                                                                   !.charge = charge]]
                   /\ UNCHANGED last
    /\ UNCHANGED <<objects, refs, current, cache, now, marks>>

\* readFile(objectPath): an existing object is returned as it is
StoreCheck(p) ==
    /\ procs[p].pc = "check"
    /\ \E hash \in {generateHash(JsonStringify(procs[p].charge))} :
          IF getObjectPath(hash) \in DOMAIN objects
              THEN /\ procs' = [procs EXCEPT ![p] = NoProc]
                   /\ last' = [Call("store") EXCEPT !.input = procs[p].charge,
                                                    !.hash = hash]
              ELSE /\ Cardinality(Stored(objects)) < MaxObjects
                   /\ procs' = [procs EXCEPT ![p].pc = "mkdir"]
                   /\ UNCHANGED last
    /\ UNCHANGED <<dirs, objects, refs, current, cache, now, marks>>

\* mkdir(dirname(objectPath), { recursive: true })
StoreMkdir(p) ==
    /\ procs[p].pc = "mkdir"
    /\ dirs' = [dirs EXCEPT !.shards =
                   @ \cup {getObjectPath(generateHash(JsonStringify(procs[p].charge)))}]
    /\ procs' = [procs EXCEPT ![p].pc = "open"]
    /\ UNCHANGED <<objects, refs, current, cache, now, last, marks>>

\* createWriteStream(tempPath): the file exists, nothing is in it yet
StoreOpen(p) ==
    /\ procs[p].pc = "open"
    /\ \E content \in {JsonStringify(procs[p].charge)} :
          objects' = [path \in DOMAIN objects
                                 \cup {tempPath(getObjectPath(generateHash(content)), p)} |->
                        IF path = tempPath(getObjectPath(generateHash(content)), p)
                            THEN [text |-> content, complete |-> FALSE]
                            ELSE objects[path]]
    /\ procs' = [procs EXCEPT ![p].pc = "write"]
    /\ UNCHANGED <<dirs, refs, current, cache, now, last, marks>>

\* pipeline([content], gzip, writeStream) has written the last chunk
StoreWrite(p) ==
    /\ procs[p].pc = "write"
    /\ \E path \in {tempPath(getObjectPath(generateHash(JsonStringify(procs[p].charge))), p)} :
          objects' = IF path \in DOMAIN objects
                         THEN [objects EXCEPT ![path].complete = TRUE]
                         ELSE objects
    /\ procs' = [procs EXCEPT ![p].pc = "rename"]
    /\ UNCHANGED <<dirs, refs, current, cache, now, last, marks>>

\* rename(tempPath, objectPath), and the hash is returned; a temp file that
\* is no longer there makes rename throw, and the catch block runs
StoreRename(p) ==
    /\ procs[p].pc = "rename"
    /\ \E hash \in {generateHash(JsonStringify(procs[p].charge))} :
       \E from \in {tempPath(getObjectPath(hash), p)} :
          IF from \in DOMAIN objects
              THEN /\ objects' = [path \in (DOMAIN objects \ {from})
                                              \cup {getObjectPath(hash)} |->
                                    IF path = getObjectPath(hash) THEN objects[from]
                                    ELSE objects[path]]
                   /\ last' = [Call("store") EXCEPT !.input = procs[p].charge,
                                                    !.hash = hash, !.wrote = TRUE]
              ELSE /\ objects' = safeUnlink(objects, from)
                   /\ last' = [Call("store") EXCEPT !.input = procs[p].charge,
                                                    !.err = "Failed to store charge"]
    /\ procs' = [procs EXCEPT ![p] = NoProc]
    /\ UNCHANGED <<dirs, refs, current, cache, now, marks>>

\* The hashes of the records storeCharge is called with
InputHashes == {generateHash(JsonStringify(charge)) : charge \in StoreInputs}

NextConc ==
    \/ \E p \in Callers : \E charge \in StoreInputs : StoreBegin(p, charge)
    \/ \E p \in Callers : StoreCheck(p)
    \/ \E p \in Callers : StoreMkdir(p)
    \/ \E p \in Callers : StoreOpen(p)
    \/ \E p \in Callers : StoreWrite(p)
    \/ \E p \in Callers : StoreRename(p)
    \/ \E hash \in InputHashes : GetCharge(hash)

SpecConc == Init /\ [][NextConc]_vars

(***************************************************************************)
(* I/O faults: the pipeline, writeFile or rename of a call throws, and the  *)
(* catch block unlinks the temp file and throws StorageError.  updateRef    *)
(* step by step; the temp files of refs/ are entries of refs.               *)
(***************************************************************************)
\* randomUUID() of a caller, as part of a file name
Uuid(p) == IF p = 1 THEN "u1" ELSE "u2"

\* `${refPath}.tmp.${randomUUID()}`
refTempPath(token, uuid) == token \o <<".tmp", uuid>>

\* The ref files of refs/ that are no temp files
RefFiles(rs) == {t \in DOMAIN rs : ".tmp" \notin Range(t)}

\* pipeline or rename throws: safeUnlink(tempPath), then StorageError
StoreFails(p) ==
    /\ procs[p].pc \in {"write", "rename"}
    /\ \E from \in {tempPath(getObjectPath(generateHash(JsonStringify(procs[p].charge))),
                             p)} :
          objects' = safeUnlink(objects, from)
    /\ last' = [Call("store") EXCEPT !.input = procs[p].charge,
                                     !.err = "Failed to store charge"]
    /\ procs' = [procs EXCEPT ![p] = NoProc]
    /\ UNCHANGED <<dirs, refs, current, cache, now, marks>>

\* updateRef(context, hash): ensureDirectories, refPath and tempPath
RefBegin(p, context, hash) ==
    /\ procs[p].pc = "idle"
    /\ dirs' = ensureDirectories(dirs)
    /\ procs' = [procs EXCEPT ![p] = [NoProc EXCEPT !.pc = "refopen",
                                                    !.name = context, !.hash = hash]]
    /\ UNCHANGED <<objects, refs, current, cache, now, last, marks>>

\* writeFile(tempPath, hash) opens the file: it exists and is empty.  Below a
\* directory nobody made the open fails, and the catch block runs.
RefOpen(p) ==
    /\ procs[p].pc = "refopen"
    /\ \E token \in {replaceFirstSlash(procs[p].name)} :
          IF Nested(token)
              THEN /\ refs' = safeUnlink(refs, refTempPath(token, Uuid(p)))
                   /\ last' = [Call("updateRef") EXCEPT !.name = procs[p].name,
                                   !.hash = procs[p].hash, !.err = "Failed to update ref"]
                   /\ procs' = [procs EXCEPT ![p] = NoProc]
              ELSE /\ refs' = refs @@ (refTempPath(token, Uuid(p)) :> EmptyText)
                   /\ procs' = [procs EXCEPT ![p].pc = "refwrite"]
                   /\ UNCHANGED last
    /\ UNCHANGED <<dirs, objects, current, cache, now, marks>>

\* writeFile(tempPath, hash) has written the hash
RefWrite(p) ==
    /\ procs[p].pc = "refwrite"
    /\ \E from \in {refTempPath(replaceFirstSlash(procs[p].name), Uuid(p))} :
          refs' = [refs EXCEPT ![from] = procs[p].hash]
    /\ procs' = [procs EXCEPT ![p].pc = "refrename"]
    /\ UNCHANGED <<dirs, objects, current, cache, now, last, marks>>

\* rename(tempPath, refPath)
RefRename(p) ==
    /\ procs[p].pc = "refrename"
    /\ \E token \in {replaceFirstSlash(procs[p].name)} :
       \E from \in {refTempPath(token, Uuid(p))} :
          refs' = [t \in (DOMAIN refs \ {from}) \cup {token} |->
                      IF t = token THEN refs[from] ELSE refs[t]]
    /\ last' = [Call("updateRef") EXCEPT !.name = procs[p].name, !.hash = procs[p].hash]
    /\ procs' = [procs EXCEPT ![p] = NoProc]
    /\ UNCHANGED <<dirs, objects, current, cache, now, marks>>

\* writeFile or rename throws: safeUnlink(tempPath), then StorageError
RefFails(p) ==
    /\ procs[p].pc \in {"refwrite", "refrename"}
    /\ \E from \in {refTempPath(replaceFirstSlash(procs[p].name), Uuid(p))} :
          refs' = safeUnlink(refs, from)
    /\ last' = [Call("updateRef") EXCEPT !.name = procs[p].name, !.hash = procs[p].hash,
                                         !.err = "Failed to update ref"]
    /\ procs' = [procs EXCEPT ![p] = NoProc]
    /\ UNCHANGED <<dirs, objects, current, cache, now, marks>>

\* The record stored and the workspaces whose ref is written
FaultInputs == { Charge(PlainOrder, "Fix bug", Num(2), T1, "unmarked") }

FaultNames == { DefaultName, <<"a", "/", "b", "/", "c">> }

NextFault ==
    \/ \E p \in Callers : \E charge \in FaultInputs : StoreBegin(p, charge)
    \/ \E p \in Callers : StoreCheck(p)
    \/ \E p \in Callers : StoreMkdir(p)
    \/ \E p \in Callers : StoreOpen(p)
    \/ \E p \in Callers : StoreWrite(p)
    \/ \E p \in Callers : StoreRename(p)
    \/ \E p \in Callers : StoreFails(p)
    \/ \E p \in Callers : \E context \in FaultNames :
       \E hash \in Stored(objects) \cup {EmptyText} : RefBegin(p, context, hash)
    \/ \E p \in Callers : RefOpen(p)
    \/ \E p \in Callers : RefWrite(p)
    \/ \E p \in Callers : RefRename(p)
    \/ \E p \in Callers : RefFails(p)

SpecFault == Init /\ [][NextFault]_vars

(***************************************************************************)
(* createCharge step by step: two callers between whose getRef and          *)
(* updateRef the other runs                                                *)
(***************************************************************************)
\* The options the callers pass: -u 2 and -u 3
RaceOptions == { WorkOptions, [WorkOptions EXCEPT !.units = Num(3)] }

\* The parent a caller has read from the ref and put into its charge
ParentRead(p) ==
    IF Has(procs[p].charge, "parent") THEN procs[p].charge.val.parent ELSE NoHash

\* getCurrentContext, the units check, getRef(context) and chargeData
CcRead(p, options) ==
    /\ procs[p].pc \in {"idle", "done"}
    /\ \E context \in {getCurrentContext} :
       \E ref \in {getRef(context)} :
       LET badUnits == options.units.kind = "NaN"
                         \/ (options.units.kind = "number" /\ options.units.n <= 0)
           err == IF badUnits THEN "Units must be a positive number" ELSE ref.err
       IN IF err # ""
              THEN /\ last' = [Call("createCharge") EXCEPT !.name = context, !.err = err]
                   /\ procs' = [procs EXCEPT ![p] = NoProc]
              ELSE /\ procs' = [procs EXCEPT ![p] =
                                   [NoProc EXCEPT !.pc = "ccstore", !.name = context,
                                       !.charge = chargeData(options, <<>>, ref.head,
                                                             context, now)]]
                   /\ UNCHANGED last
    /\ UNCHANGED <<dirs, objects, refs, current, cache, now, marks>>

\* storage.storeCharge(chargeData)
CcStore(p) ==
    /\ procs[p].pc = "ccstore"
    /\ \E out \in {storeChargeOn(objects, dirs, procs[p].charge)} :
          IF out.err # ""
              THEN /\ last' = [Call("createCharge") EXCEPT !.input = procs[p].charge,
                                   !.name = procs[p].name, !.err = out.err]
                   /\ procs' = [procs EXCEPT ![p] = NoProc]
                   /\ UNCHANGED <<objects, dirs>>
              ELSE /\ objects' = out.objects
                   /\ dirs' = out.dirs
                   /\ procs' = [procs EXCEPT ![p].pc = "ccupdate", ![p].hash = out.hash]
                   /\ UNCHANGED last
    /\ UNCHANGED <<refs, current, cache, now, marks>>

\* updateRef that writes only when the head is still the parent that was read
CcUpdateRefCas(p) ==
    /\ procs[p].pc = "ccupdate"
    /\ \E up \in {updateRefIn(refs, procs[p].name, procs[p].hash)} :
          IF up.err # "" \/ getRef(procs[p].name).head # ParentRead(p)
              THEN /\ last' = [Call("createCharge") EXCEPT !.input = procs[p].charge,
                                   !.name = procs[p].name, !.err = "Failed to update ref"]
                   /\ procs' = [procs EXCEPT ![p] = NoProc]
                   /\ UNCHANGED refs
              ELSE /\ refs' = up.refs
                   /\ last' = [Call("createCharge") EXCEPT !.input = procs[p].charge,
                                   !.name = procs[p].name, !.hash = procs[p].hash,
                                   !.wrote = TRUE]
                   /\ procs' = [procs EXCEPT ![p].pc = "done"]
    /\ UNCHANGED <<dirs, objects, current, cache, now, marks>>

\* storage.updateRef(context, chargeId), and chargeId is returned
CcUpdateRef(p) ==
    /\ procs[p].pc = "ccupdate"
    /\ \E up \in {updateRefIn(refs, procs[p].name, procs[p].hash)} :
          IF up.err # ""
              THEN /\ last' = [Call("createCharge") EXCEPT !.input = procs[p].charge,
                                   !.name = procs[p].name, !.err = up.err]
                   /\ procs' = [procs EXCEPT ![p] = NoProc]
                   /\ UNCHANGED refs
              ELSE /\ refs' = up.refs
                   /\ last' = [Call("createCharge") EXCEPT !.input = procs[p].charge,
                                   !.name = procs[p].name, !.hash = procs[p].hash,
                                   !.wrote = TRUE]
                   /\ procs' = [procs EXCEPT ![p].pc = "done"]
    /\ UNCHANGED <<dirs, objects, current, cache, now, marks>>

NextRace ==
    \/ \E p \in Callers : \E options \in RaceOptions : CcRead(p, options)
    \/ \E p \in Callers : CcStore(p) /\ RoomHist(objects')
    \/ \E p \in Callers : CcUpdateRef(p)

SpecRace == Init /\ [][NextRace]_vars

(***************************************************************************)
(* The second Storage class of the repository (src/unnamed/part_001), which *)
(* the ChargeManager of src/src/lib/charge.ts is written against: no        *)
(* validation, no existence check, and a state change rewrites the object   *)
(* file in place.                                                           *)
(***************************************************************************)
\* storeCharge: the temp file is written and renamed over the final path
storeChargeMvp(objs, ds, charge) ==
    LET content == JsonStringify(charge)
        hash    == generateHash(content)
        path    == getObjectPath(hash)
    IN Outcome("", hash,
               [q \in DOMAIN objs \cup {path} |->
                   IF q = path THEN [text |-> content, complete |-> TRUE] ELSE objs[q]],
               [ds EXCEPT !.shards = @ \cup {path}],
               TRUE)

\* getCharge: null when absent, no validation of what is read
getChargeMvp(objs, hash) ==
    IF getObjectPath(hash) \notin DOMAIN objs
        THEN [status |-> "null", charge |-> EmptyObject]
    ELSE IF ~objs[getObjectPath(hash)].complete
        THEN [status |-> "error", charge |-> EmptyObject]
    ELSE [status |-> "ok",
          charge |-> Spread(SetKey(EmptyObject, "id", hash),
                            JsonParse(objs[getObjectPath(hash)].text))]

\* updateChargeState: charge.state = newState, written back under chargeId
updateChargeStateMvp(objs, ds, chargeId, newState) ==
    LET got == getChargeMvp(objs, chargeId)
        content == JsonStringify(
                       SetUndefined(Spread(EmptyObject,
                                           SetKey(got.charge, "state", newState)),
                                    "id"))
    IN IF got.status # "ok" THEN Outcome("Charge not found", NoHash, objs, ds, FALSE)
       ELSE Outcome("", NoHash,
                    [objs EXCEPT ![getObjectPath(chargeId)] =
                        [text |-> content, complete |-> TRUE]],
                    ds, TRUE)

\* getRef: the trimmed content, null when there is no file
getRefMvp(rs, context) ==
    IF replaceFirstSlash(context) \in DOMAIN rs
        THEN rs[replaceFirstSlash(context)] ELSE NoHash

\* updateRef: mkdir -p of the directory, then a plain writeFile
updateRefMvp(rs, context, hash) ==
    [t \in DOMAIN rs \cup {replaceFirstSlash(context)} |->
        IF t = replaceFirstSlash(context) THEN hash ELSE rs[t]]

\* getCurrentContext: the trimmed file content, 'default' when absent
getCurrentContextMvp(cur) == IF cur = <<>> THEN DefaultName ELSE TrimName(cur[1])

\* The constructor has made the three directories
InitMvp ==
    /\ dirs = [root |-> {"gig", "objects", "refs"}, shards |-> {}]
    /\ \/ refs = <<>> /\ current = <<>>
       \/ /\ refs = (replaceFirstSlash(<<"a", "/", "b">>) :> EmptyText)
          /\ current = << <<"a", "/", "b">> >>
    /\ objects = <<>>
    /\ cache = <<>>
    /\ now = 0
    /\ last = Call("init")
    /\ marks = <<>>
    /\ procs = [p \in Callers |-> NoProc]

\* chargeManager.createCharge(options) of src/src/lib/charge.ts
CreateChargeMvp(options, found) ==
    \E context \in {getCurrentContextMvp(current)} :
    \E parent \in {getRefMvp(refs, context)} :
    \E data \in {chargeData(options,
                            SelectSeq(options.git_commits, LAMBDA c : c \in found),
                            parent, context, now)} :
    \E out \in {storeChargeMvp(objects, dirs, data)} :
    LET badUnits == options.units.kind = "NaN"
                      \/ (options.units.kind = "number" /\ options.units.n <= 0)
    IN /\ found \subseteq Range(options.git_commits)
       /\ objects' = IF badUnits THEN objects ELSE out.objects
       /\ dirs' = IF badUnits THEN dirs ELSE out.dirs
       /\ refs' = IF badUnits THEN refs ELSE updateRefMvp(refs, context, out.hash)
       /\ last' = [Call("createCharge") EXCEPT !.input = data, !.name = context,
                       !.err = IF badUnits THEN "Units must be a positive number" ELSE "",
                       !.hash = IF badUnits THEN NoHash ELSE out.hash,
                       !.wrote = ~badUnits]
       /\ UNCHANGED <<current, cache, now, marks, procs>>

\* chargeManager.markCharge(chargeId, newState) of src/src/lib/charge.ts
MarkChargeMvp(chargeId, newState) ==
    \E got \in {getChargeMvp(objects, chargeId)} :
    \E out \in {updateChargeStateMvp(objects, dirs, chargeId, newState)} :
    LET err == IF newState \notin {"unmarked", "collectible", "billed", "paid"}
                   THEN "Invalid state"
               ELSE IF got.status = "null" THEN "Charge not found"
               ELSE IF got.status = "error" THEN "Failed to read charge"
               ELSE out.err
    IN /\ objects' = IF err = "" THEN out.objects ELSE objects
       /\ last' = [Call("mark") EXCEPT !.id = chargeId, !.state = newState,
                                       !.err = err, !.wrote = err = ""]
       /\ UNCHANGED <<dirs, refs, current, cache, now, marks, procs>>

\* storage.getCharge(hash)
GetChargeMvp(hash) ==
    \E got \in {getChargeMvp(objects, hash)} :
       /\ last' = [Call("get") EXCEPT !.id = hash, !.status = got.status,
                                      !.got = got.charge]
       /\ UNCHANGED <<dirs, objects, refs, current, cache, now, marks, procs>>

NextMvp ==
    \/ Tick(1)
    \/ \E options \in CreateInputs : \E found \in SUBSET {"abc1234"} :
          CreateChargeMvp(options, found) /\ Room(objects')
    \/ \E chargeId \in Stored(objects) \cup {MissingHash} : \E newState \in MarkStates :
          MarkChargeMvp(chargeId, newState)
    \/ \E hash \in Stored(objects) \cup {MissingHash} : GetChargeMvp(hash)

SpecMvp == InitMvp /\ [][NextMvp]_vars

(***************************************************************************)
(* The ledger on the records validation lets through: units that are not   *)
(* finite, parents that name no object, refs set through storage.updateRef *)
(***************************************************************************)
\* A stored charge that names a parent nobody stored
Orphan ==
    SetKey(Charge(<<"summary", "units", "timestamp", "context", "state">>,
                  "Fix bug", Num(2), ToISOString(0), "unmarked"),
           "parent", MissingHash)

\* The records storeCharge is called with
EdgeInputs ==
    { Charge(PlainOrder, "Fix bug", Num(2), T1, "unmarked"),
      Charge(PlainOrder, "Fix bug", NaN, T1, "unmarked"),
      Charge(PlainOrder, "Fix bug", Infinity, T1, "unmarked"),
      Orphan }

\* The options createCharge is called with: parseFloat of the -u flag
EdgeOptions ==
    { [summary |-> "Fix bug", units |-> Num(2), git_commits |-> <<>>],
      [summary |-> "Fix bug", units |-> NaN, git_commits |-> <<>>],
      [summary |-> "Fix bug", units |-> Infinity, git_commits |-> <<>>] }

NextEdge ==
    \/ \E charge \in EdgeInputs : StoreCharge(charge) /\ Room(objects')
    \/ \E options \in EdgeOptions : CreateCharge(options, {}) /\ Room(objects')
    \/ \E hash \in Stored(objects) \cup {MissingHash} : GetCharge(hash)
    \/ \E hash \in Stored(objects) \cup {MissingHash, EmptyText} :
          UpdateRef(getCurrentContext, hash)

SpecEdge == Init /\ [][NextEdge]_vars

(***************************************************************************)
(* Histories: createWorkspace, createCharge and mark, with room for a chain *)
(* of two charges and a marked version of the older one                    *)
(***************************************************************************)
HistName == <<"a", "/", "b">>

\* The options createCharge is called with: -u 2 and -u Infinity
HistOptions ==
    { WorkOptions,
      [summary |-> "Fix bug", units |-> Infinity, git_commits |-> <<>>] }

NextHist ==
    \/ CreateWorkspace(HistName)
    \/ \E options \in HistOptions : CreateCharge(options, {}) /\ RoomHist(objects')
    \/ \E chargeId \in Stored(objects) :
          MarkCharge(chargeId, "collectible") /\ RoomHist(objects')

SpecHist == Init /\ [][NextHist]_vars

(***************************************************************************)
(* Properties                                                              *)
(***************************************************************************)
\* The workspace a stored charge belongs to
ContextOf(hash) == getCharge(hash).charge.val.context

MarkDone == last.op = "mark" /\ last.err = ""

\* C1: after mark(H, s) succeeds on a stored charge H of workspace W,
\* getRef(W) is the hash of the newly stored version.
MarkAdvancesRef ==
    MarkDone => getRef(ContextOf(last.id)).head = last.hash

\* C2: after N sequential successful marks starting from the first charge C0
\* of a workspace, walking that workspace yields exactly N+1 objects, newest
\* first, the last being C0 with no parent.
HistoryIntegrity ==
    marks # <<>> =>
        LET walk == walkHistory(ContextOf(marks[1]))
            read == walkHashes(objects, getRef(ContextOf(marks[1])).head,
                               Cardinality(DOMAIN objects))
        IN /\ ~walk.raised
           /\ Len(walk.charges) = Len(marks)
           /\ \A i \in 1..Len(marks) : read[i] = marks[Len(marks) + 1 - i]
           /\ ~Has(walk.charges[Len(marks)], "parent")

\* C3: no step deletes or rewrites an object: what is stored under a hash
\* stays byte for byte what was first written there, and its hash is its
\* address; after mark(H1, s), get(H1) is the original record.
ObjectsImmutable ==
    [][/\ \A h \in Stored(objects) :
             h \in Stored(objects') /\ objects'[h] = objects[h]
       /\ \A h \in Stored(objects') :
             getObjectPath(generateHash(objects'[h].text)) = h]_vars

NoIdInPayload ==
    \A h \in Stored(objects) : "id" \notin Range(objects[h].text.order)

\* C6: for every hash h returned by store, createCharge or mark, get(h)
\* returns the record with id = h.
RoundTripId ==
    (last.op \in {"store", "createCharge", "mark"} /\ last.err = "") =>
        /\ getCharge(last.hash).status = "ok"
        /\ getCharge(last.hash).charge.val.id = last.hash

\* C7: storing content that is already stored returns the hash it was first
\* stored under, writes nothing and leaves the set of object files as it was.
IdempotentStore ==
    [][\A charge \in StoreInputs :
          (/\ last'.op = "store" /\ last'.input = charge
           /\ StoreCharge(charge)
           /\ \E h \in Stored(objects) : objects[h].text = JsonStringify(charge))
          => /\ objects' = objects
             /\ ~last'.wrote
             /\ last'.err = ""
             /\ last'.hash \in Stored(objects)
             /\ objects[last'.hash].text = JsonStringify(charge)]_vars

\* C7 witness: a store call found its content already there.
StoredTwice ==
    /\ last.op = "store" /\ last.err = "" /\ ~last.wrote
    /\ last.hash \in Stored(objects)
    /\ objects[last.hash].text = JsonStringify(last.input)

\* C8: two records with the same field values have the same hash, whatever
\* the order their fields were written in.
HashIgnoresFieldOrder ==
    \A h1, h2 \in Stored(objects) :
        FieldsOf(objects[h1].text) = FieldsOf(objects[h2].text) => h1 = h2

\* C9: whatever the interleaving of a store's steps with reads of the same
\* hash, a read returns null or the complete object, never a partial one.
AtomicVisibility ==
    /\ last.op = "get" => last.status \in {"null", "ok"}
    /\ \A h \in InputHashes :
          \/ getCharge(h).status = "null"
          \/ /\ getCharge(h).status = "ok"
             /\ \E charge \in StoreInputs :
                   /\ generateHash(JsonStringify(charge)) = h
                   /\ getCharge(h).charge =
                        Spread(SetKey(EmptyObject, "id", h), charge)

\* C9 witness: a read of a hash came back null while the temp file of that
\* very content was half written.
ReadDuringWrite ==
    \E p \in Callers :
        /\ procs[p].pc = "write"
        /\ last.op = "get" /\ last.status = "null"
        /\ last.id = generateHash(JsonStringify(procs[p].charge))
        /\ ~objects[tempPath(getObjectPath(last.id), p)].complete

\* The checks of the claim that a record fails, by the message of each
Violations(charge) ==
    (IF Trim(charge.val.summary) = "" THEN {"Charge summary is required"} ELSE {})
    \cup (IF charge.val.units.kind = "number" /\ charge.val.units.n <= 0
              THEN {"Charge units must be a positive number"} ELSE {})
    \cup (IF charge.val.state \notin {"unmarked", "collectible", "billed", "paid"}
              THEN {"Invalid charge state"} ELSE {})
    \cup (IF ~charge.val.timestamp.iso
              THEN {"Invalid timestamp format, expected ISO 8601"} ELSE {})

\* C10: store of a record with units <= 0, a state outside the enum, an empty
\* or blank summary or an unparsable timestamp fails with the error of that
\* check and leaves objects, refs and directories as they were.
ValidationRejects ==
    [][\A charge \in StoreInputs :
          (/\ last'.op = "store" /\ last'.input = charge
           /\ StoreCharge(charge)
           /\ Violations(charge) # {})
          => /\ last'.err \in Violations(charge)
             /\ last'.hash = NoHash
             /\ ~last'.wrote
             /\ UNCHANGED <<objects, refs, dirs, current>>]_vars

\* C10 witness: a record was rejected by a store that already holds objects.
RejectedStore ==
    /\ last.op = "store"
    /\ last.err \in {"Charge summary is required",
                     "Charge units must be a positive number",
                     "Invalid charge state",
                     "Invalid timestamp format, expected ISO 8601"}
    /\ Violations(last.input) # {}
    /\ Stored(objects) # {}

\* C11: store and createCharge reject every record whose units is not a
\* finite number above 0, NaN and Infinity included, so every stored object
\* carries units that pass validation when read back.
UnitsFiniteStored ==
    /\ \A h \in Stored(objects) :
          /\ objects[h].text.val.units.kind = "number"
          /\ objects[h].text.val.units.n > 0
    /\ (last.op \in {"store", "createCharge"}
          /\ last.input.val.units.kind # "number") => last.err # ""

\* An object file whose content does not pass the checks made on reading
Unreadable(h) ==
    \/ ~objects[h].complete
    \/ "units" \notin Range(objects[h].text.order)
    \/ objects[h].text.val.units.kind # "number"
    \/ objects[h].text.val.units.n <= 0

\* C12: get(h) returns null, without raising, when no object file exists for
\* h, and raises, never returning null, when the file exists and does not
\* decompress, parse or validate.
GetNullOrError ==
    last.op = "get" =>
        /\ last.id \notin Stored(objects) => (last.status = "null" /\ last.err = "")
        /\ (last.id \in Stored(objects) /\ Unreadable(last.id))
              => (last.status = "error" /\ last.err # "")
        /\ (last.id \in Stored(objects) /\ ~Unreadable(last.id))
              => last.status = "ok"

\* C12 witness: get raised on an object file that is there and fails
\* validation.
GetRaisedOnInvalid ==
    /\ last.op = "get" /\ last.status = "error"
    /\ last.id \in Stored(objects)
    /\ objects[last.id].text.val.units = JsonNull

\* C17: every successful createCharge in workspace W leaves getRef(W) at the
\* hash it returned and puts its charge in front of what walkHistory(W)
\* yielded before, its parent being the previous head (none for the first).
CreateChargeChain ==
    [][(last'.op = "createCharge" /\ last'.err = "" /\ refs' # refs) =>
          LET W      == last'.name
              before == walkHistoryIn(objects, refs, W)
              after  == walkHistoryIn(objects', refs', W)
          IN /\ getRefIn(refs', W).head = last'.hash
             /\ ~after.raised
             /\ Len(after.charges) = Len(before.charges) + 1
             /\ after.charges[1].val.id = last'.hash
             /\ SubSeq(after.charges, 2, Len(after.charges)) = before.charges
             /\ Has(after.charges[1], "parent") = (getRefIn(refs, W).head # NoHash)
             /\ after.charges[1].val.parent = getRefIn(refs, W).head]_vars

\* C20: when the head or an ancestor is missing or is there but invalid,
\* walkHistory ends after the objects already yielded and does not raise.
TolerantWalk ==
    getRef(getCurrentContext).err = "" => ~walkHistory(getCurrentContext).raised

\* C13: after updateRef(W, h) succeeds with non-empty h, getRef(W) = h; after
\* updateRef(W, '') succeeds, getRef(W) is null and contextExists(W) is true;
\* getRef(W) is null when W has no ref file.
RefReadAfterWrite ==
    /\ (last.op = "updateRef" /\ last.err = "" /\ last.id # EmptyText)
          => getRef(last.name) = [err |-> "", head |-> last.id]
    /\ (last.op = "updateRef" /\ last.err = "" /\ last.id = EmptyText)
          => /\ getRef(last.name) = [err |-> "", head |-> NoHash]
             /\ contextExists(last.name)
    /\ (last.op = "getRef" /\ replaceFirstSlash(last.name) \notin DOMAIN refs)
          => (last.status = "null" /\ last.err = "")

\* C14: for two distinct valid names A and B, updateRef(A, h),
\* createWorkspace(A) and createCharge in A leave getRef(B) and
\* contextExists(B) as they were.
RefIsolation ==
    [][(last'.op \in {"updateRef", "createWorkspace", "createCharge"}
          /\ refs' # refs) =>
          \A B \in IsoNames \ {last'.name} :
             /\ getRefIn(refs', B) = getRefIn(refs, B)
             /\ contextExistsIn(refs', B) = contextExistsIn(refs, B)]_vars

\* C15: createWorkspace of a name that passes validation and does not exist
\* yet succeeds: afterwards the workspace exists, getRef is null for it and
\* it is the current workspace; three-segment names included.
CreateValidSucceeds ==
    [][(/\ last'.op = "createWorkspace" /\ now' = now
        /\ validateWorkspaceName(last'.name) = ""
        /\ ~contextExistsIn(refs, last'.name)) =>
          /\ last'.err = ""
          /\ contextExistsIn(refs', last'.name)
          /\ getRefIn(refs', last'.name) = [err |-> "", head |-> NoHash]
          /\ getCurrentContextOf(current') = last'.name]_vars

\* C16: listWorkspaces is sorted, has no duplicates, holds default, and holds
\* every name given to a successful createWorkspace spelled as it was created.
ListAsCreated ==
    /\ \A i, j \in 1..Len(listWorkspaces) :
          i < j => LessName(listWorkspaces[i], listWorkspaces[j])
    /\ DefaultName \in Range(listWorkspaces)
    /\ (last.op = "createWorkspace" /\ last.err = "")
          => last.name \in Range(listWorkspaces)

CollectFollowsMark ==
    (MarkDone /\ Len(marks) >= 2 /\ last.state = "collectible") =>
        /\ ~collect(<<>>).raised
        /\ \A i \in 1..Len(collect(<<>>).charges) :
              collect(<<>>).charges[i].val.id # last.id
        /\ \E i \in 1..Len(collect(<<"mark", ":", "collectible">>).charges) :
              LET c == collect(<<"mark", ":", "collectible">>).charges[i]
              IN c.val.state = "collectible" /\ c.val.parent = last.id

SwitchToDefault ==
    (last.op = "switchWorkspace" /\ last.name = DefaultName) =>
        (last.err = "" /\ getCurrentContext = DefaultName)

\* C28: findCharges returns each stored charge version at most once: no hash
\* occurs twice among the ids of the charges it returns (without mark, the id
\* getCharge gives a charge is the hash it was loaded from).
FindChargesNoDuplicates ==
    LET charges == findCharges.charges
    IN \A i, j \in 1..Len(charges) :
          i # j => charges[i].val.id # charges[j].val.id

\* C30: getCurrentWorkspace returns 'default' or the name of a workspace
\* whose ref file exists.
CurrentHasRef ==
    \/ getCurrentContext = DefaultName
    \/ replaceFirstSlash(getCurrentContext) \in DOMAIN refs

\* The workspaces of the history runs
HistNames == {DefaultName, HistName}

\* The parent an object file names, read from its text
parentIn(objs, h) ==
    LET data == JsonParse(objs[getObjectPath(h)].text)
    IN IF Has(data, "parent") THEN data.val.parent ELSE NoHash

\* The hashes met by following parent from h over the stored objects
RECURSIVE parentChain(_, _, _)
parentChain(objs, h, fuel) ==
    IF h \notin Stored(objs) \/ fuel = 0 THEN <<>>
    ELSE <<h>> \o parentChain(objs, parentIn(objs, h), fuel - 1)

\* C25: the parent relation over the stored objects is acyclic, and a walk
\* from any stored object ends and yields no object twice.
WalkTerminates ==
    \A h \in Stored(objects) :
        LET n == Cardinality(DOMAIN objects) + 1
            chain == parentChain(objects, h, n)
            walk == walkFrom(objects, h, n)
        IN /\ Len(chain) < n
           /\ \A i, j \in 1..Len(chain) : i # j => chain[i] # chain[j]
           /\ ~walk.cut
           /\ \A i, j \in 1..Len(walk.charges) :
                 i # j => walk.charges[i] # walk.charges[j]

\* C25 witness: mark has stored a version whose walk yields it and its original.
MarkedChainWalked ==
    /\ last.op = "mark" /\ last.err = "" /\ last.wrote
    /\ Len(walkFrom(objects, last.hash, Cardinality(DOMAIN objects) + 1).charges) >= 2

\* C26: each workspace's ref is empty or the hash of a stored object that
\* getCharge loads without raising.
RefsValid ==
    \A W \in HistNames :
        LET ref == getRef(W)
        IN /\ ref.err = ""
           /\ \/ ref.head = NoHash
              \/ /\ ref.head \in Stored(objects)
                 /\ getCharge(ref.head).status = "ok"

\* C29: after mark(H, s) succeeds for a charge H that walkHistory(W) yields,
\* every charge walkHistory(W) yielded before the call is still yielded.
MarkKeepsHistory ==
    [][(last'.op = "mark" /\ last'.err = "") =>
          \A W \in HistNames :
              LET before == walkHistoryIn(objects, refs, W).charges
                  after  == walkHistoryIn(objects', refs', W).charges
              IN last'.id \in Range(walkHashes(objects, getRef(W).head,
                                                 Cardinality(DOMAIN objects))) =>
                    \A i \in 1..Len(before) : \E j \in 1..Len(after) : after[j] = before[i]]_vars

\* C29 witness: an older entry of the current workspace's history was marked,
\* and the head and the entry are both still yielded.
OlderEntryMarked ==
    LET walk == walkHashes(objects, getRef(getCurrentContext).head,
                           Cardinality(DOMAIN objects))
    IN /\ last.op = "mark" /\ last.err = "" /\ last.wrote
       /\ Len(walk) >= 2
       /\ walk[2] = last.id
       /\ Len(walkHistory(getCurrentContext).charges) = Len(walk)
       /\ last.hash \in Stored(objects)

\* The temp file of the store call p is in
TempOf(p) == tempPath(getObjectPath(generateHash(JsonStringify(procs[p].charge))), p)

\* C23: however the steps of store calls interleave, a returned hash is the
\* hash of the content and names one complete object file holding it, every
\* object file is complete under its own hash, and every temp file belongs
\* to a call still between open and rename, so none is left behind.
ConcurrentWritersConverge ==
    /\ \A path \in DOMAIN objects \ Stored(objects) :
          \E p \in Callers : procs[p].pc \in {"write", "rename"} /\ path = TempOf(p)
    /\ \A h \in Stored(objects) :
          objects[h].complete /\ generateHash(objects[h].text) = h
    /\ (last.op = "store" /\ last.err = "") =>
          /\ last.hash = generateHash(JsonStringify(last.input))
          /\ last.hash \in Stored(objects)
          /\ objects[last.hash].text = JsonStringify(last.input)

\* C23 witness: one writer has renamed its file into place while another
\* writer of the same content, past the existence check, has yet to rename.
SecondWriterPending ==
    /\ last.op = "store" /\ last.err = "" /\ last.wrote
    /\ \E p \in Callers :
          /\ procs[p].pc = "rename"
          /\ procs[p].charge = last.input
          /\ TempOf(p) \in DOMAIN objects

\* The temp file of the updateRef call p is in
RefTempOf(p) == refTempPath(replaceFirstSlash(procs[p].name), Uuid(p))

RefUpdateClobbers ==
    [][\A p, q \in Callers :
          (/\ p # q
           /\ procs[p].pc = "ccupdate" /\ procs'[p].pc # "ccupdate"
           /\ procs[q].pc = "done"
           /\ procs[q].name = procs[p].name
           /\ ParentRead(q) = ParentRead(p)
           /\ procs[q].hash # procs[p].hash
           /\ getRef(procs[p].name).head = procs[q].hash) =>
              /\ procs'[p].pc = "done"
              /\ last'.err = "" /\ last'.hash = procs[p].hash
              /\ getRefIn(refs', procs[p].name).head = procs[p].hash
              /\ procs[q].hash \notin
                    Range(walkHashes(objects', procs[p].hash,
                                     Cardinality(DOMAIN objects')))]_vars

\* C24 witness: both callers have returned their hashes, read from the same
\* head; one hash is the head and the other charge is stored but not on the
\* chain of the head.
ClobberedCharge ==
    \E p, q \in Callers :
        /\ p # q
        /\ procs[p].pc = "done" /\ procs[q].pc = "done"
        /\ procs[q].name = procs[p].name
        /\ ParentRead(q) = ParentRead(p)
        /\ procs[q].hash # procs[p].hash
        /\ getRef(procs[p].name).head = procs[p].hash
        /\ procs[q].hash \in Stored(objects)
        /\ procs[q].hash \notin
              Range(walkHashes(objects, procs[p].hash, Cardinality(DOMAIN objects)))

====
